---- MODULE Spec2Model ----
(***************************************************************************)
(* Model of src/script.js: an Express server whose POST /upload route runs *)
(* the multer middleware upload.single('image') and then an async handler  *)
(* that uploads the staged temp file to the Gemini file store, deletes the *)
(* temp file, asks the chat model whether the image shows the moon, and    *)
(* answers with a page, a redirect, 400 or 500.                            *)
(*                                                                         *)
(* Strings whose content the code inspects (MIME types, error messages,    *)
(* chat replies) are sequences of one-character strings, so that           *)
(* startsWith, includes and toLowerCase are computed, not assumed.         *)
(***************************************************************************)
EXTENDS Integers, Sequences, FiniteSets, TLC

\* ------------------------------------------------------------------ bounds
\* number of concurrent POST /upload requests (safety specification)
NumReq == 2
\* number of concurrent requests in the fair (liveness) specification
LiveReq == 1

Reqs == 1..NumReq
LiveReqs == 1..LiveReq

\* ------------------------------------------------------- string literals
\* 'image/'
ImagePrefix == <<"i","m","a","g","e","/">>
\* 'image/png'
MimePng == <<"i","m","a","g","e","/","p","n","g">>
\* 'text/plain'
MimeText == <<"t","e","x","t","/","p","l","a","i","n">>
\* 'ximage/png' : contains 'image/' but does not begin with it
MimeXImage == <<"x","i","m","a","g","e","/","p","n","g">>
\* 'imag' : a proper prefix of 'image/'
MimeShort == <<"i","m","a","g">>

\* 'Only image files are allowed!'
OnlyImagesMessage ==
    <<"O","n","l","y"," ","i","m","a","g","e"," ","f","i","l","e","s"," ",
      "a","r","e"," ","a","l","l","o","w","e","d","!">>
\* 'Only image files are allowed'
OnlyImagesNeedle ==
    <<"O","n","l","y"," ","i","m","a","g","e"," ","f","i","l","e","s"," ",
      "a","r","e"," ","a","l","l","o","w","e","d">>
\* multer's MulterError('LIMIT_FILE_SIZE').message
FileTooLargeMessage ==
    <<"F","i","l","e"," ","t","o","o"," ","l","a","r","g","e">>
\* multer's MulterError('LIMIT_UNEXPECTED_FILE').message
UnexpectedFieldMessage ==
    <<"U","n","e","x","p","e","c","t","e","d"," ","f","i","e","l","d">>
\* TypeError raised by req.file.path when req.file is undefined
UndefinedFileMessage ==
    <<"C","a","n","n","o","t"," ","r","e","a","d"," ","p","r","o","p","e",
      "r","t","i","e","s"," ","o","f"," ","u","n","d","e","f","i","n","e","d">>
\* a rejected fetch to the provider
FetchFailedMessage == <<"f","e","t","c","h"," ","f","a","i","l","e","d">>
\* a rejected fs.unlink
UnlinkFailedMessage ==
    <<"E","N","O","E","N","T",":"," ","n","o"," ","s","u","c","h"," ","f","i","l","e">>
\* response.text() on a blocked candidate
TextBlockedMessage ==
    <<"T","e","x","t"," ","n","o","t"," ","a","v","a","i","l","a","b","l","e">>
\* model.startChat throwing
StartChatMessage ==
    <<"s","t","a","r","t","C","h","a","t"," ","f","a","i","l","e","d">>
\* 'yes'
YesNeedle == <<"y","e","s">>

\* chat replies the provider may return
Replies ==
    { <<"Y","E","S">>,
      <<"Y","e","s"," ","i","n","d","e","e","d">>,
      <<"y","e","s","s","?"," ","n","o">>,
      <<"Y","e","s",".">>,
      <<"N","o",","," ","t","h","i","s"," ","i","s"," ","a"," ","c","a","t",".">>,
      <<"n","o">>,
      <<>>,
      <<"y"," ","e"," ","s">>,
      <<"y","s","e">>,
      <<"e","Y","e","S">>,
      <<"y","e">>,
      <<"N","O"," ","Y","E">>,
      <<"y","e","s">>,
      <<"N","o">>,
      <<"Y","e","S","!">>,
      <<"m","a","y","b","e">>,
      <<"y","e","a","h">>,
      <<"Y","E","s","\n">>,
      <<"e","y","e","s">> }

\* ------------------------------------------------------- pure functions
\* String.prototype.startsWith
StartsWith(s, prefix) ==
    /\ Len(s) >= Len(prefix)
    /\ SubSeq(s, 1, Len(prefix)) = prefix

\* String.prototype.includes
Includes(s, sub) ==
    \E i \in 0..(Len(s) - Len(sub)) : SubSeq(s, i + 1, i + Len(sub)) = sub

UpperChars ==
    <<"A","B","C","D","E","F","G","H","I","J","K","L","M",
      "N","O","P","Q","R","S","T","U","V","W","X","Y","Z">>
LowerChars ==
    <<"a","b","c","d","e","f","g","h","i","j","k","l","m",
      "n","o","p","q","r","s","t","u","v","w","x","y","z">>

ToLowerChar(c) ==
    IF \E i \in 1..26 : UpperChars[i] = c
    THEN LowerChars[CHOOSE i \in 1..26 : UpperChars[i] = c]
    ELSE c

\* String.prototype.toLowerCase
ToLowerCase(s) == [i \in 1..Len(s) |-> ToLowerChar(s[i])]

\* multer fileFilter: accept iff file.mimetype.startsWith('image/')
fileFilter(mimetype) == StartsWith(mimetype, ImagePrefix)

\* limits.fileSize
fileSizeLimit == 5 * 1024 * 1024

\* the process-wide generation configuration (topP 0.95 kept as 95 hundredths)
generationConfigInit ==
    [temperature |-> 1, topP100 |-> 95, topK |-> 40,
     maxOutputTokens |-> 8192, responseMimeType |-> "text/plain"]

\* ------------------------------------------------------------ responses
CelebrationPage == [status |-> 200, body |-> "HAPPY BIRTHDAYYYY MOONPIE page"]
RedirectRoot == [status |-> 302, body |-> "redirect:/"]
InvalidFileType ==
    [status |-> 400, body |-> "Invalid file type. Please upload an image."]
ProcessingError ==
    [status |-> 500, body |-> "An error occurred while processing your image."]
\* Express's built-in error handler: err.status is unset, so 500 with its own page
DefaultErrorPage == [status |-> 500, body |-> "express default error page"]

\* ----------------------------------------------------------- input sets
Fields == {"none", "image", "other"}
Mimes == {MimePng, MimeText, MimeXImage, MimeShort}
Sizes == {1, fileSizeLimit, fileSizeLimit + 1}
NoBody == [field |-> "none", mimetype |-> <<>>, size |-> 0]
Bodies ==
    {NoBody} \cup
    [field : {"image", "other"}, mimetype : Mimes, size : Sizes]

\* multer's generated temp path of request r, unique per upload
TmpPath(r) == <<"tmp", r>>
\* the handle the provider returns for the upload of request r
RemoteFile(r, mimeType) == [uri |-> <<"files", r>>, mimeType |-> mimeType]
NoFile == [uri |-> <<>>, mimeType |-> <<>>]
NoReqFile == [path |-> <<>>, mimetype |-> <<>>]
NoSession == [generationConfig |-> generationConfigInit, history |-> <<>>]
NoReply == [blocked |-> FALSE, text |-> <<>>]

VARIABLES
    pc,               \* position of each request
    body,             \* the multipart body still to be parsed
    reqFile,          \* req.file
    disk,             \* temp files that exist in os.tmpdir()
    awaited,          \* state of the promise the handler is awaiting
    error,            \* rejection reason / thrown error message
    uploadedFile,     \* uploadedFile
    chatSession,      \* chatSession
    chatReply,        \* result of sendMessage
    responses,        \* responses sent on res, in order
    generationConfig, \* the module-level generationConfig object
    steps             \* what each request has done so far, in order

vars == <<pc, body, reqFile, disk, awaited, error, uploadedFile, chatSession,
          chatReply, responses, generationConfig, steps>>

Init ==
    /\ pc = [r \in Reqs |-> "idle"]
    /\ body = [r \in Reqs |-> NoBody]
    /\ reqFile = [r \in Reqs |-> NoReqFile]
    /\ disk = {}
    /\ awaited = [r \in Reqs |-> "none"]
    /\ error = [r \in Reqs |-> <<>>]
    /\ uploadedFile = [r \in Reqs |-> NoFile]
    /\ chatSession = [r \in Reqs |-> NoSession]
    /\ chatReply = [r \in Reqs |-> NoReply]
    /\ responses = [r \in Reqs |-> <<>>]
    /\ generationConfig = generationConfigInit
    /\ steps = [r \in Reqs |-> <<>>]

\* ------------------------------------------------------- shared pieces
\* the catch block of the route handler
catchResponse(message) ==
    IF Includes(message, OnlyImagesNeedle) THEN InvalidFileType ELSE ProcessingError

\* variant of HandlerCatch: the catch block logs the error and sends nothing
HandlerCatch_silent(r, message, tags) ==
    /\ error' = [error EXCEPT ![r] = message]
    /\ responses' = responses
    /\ pc' = [pc EXCEPT ![r] = "done"]
    /\ awaited' = [awaited EXCEPT ![r] = "none"]
    /\ steps' = [steps EXCEPT ![r] = @ \o tags \o <<"respond">>]

\* the handler throws `message` inside its try block and the catch answers
HandlerCatch(r, message, tags) ==
    /\ error' = [error EXCEPT ![r] = message]
    /\ responses' = [responses EXCEPT ![r] = Append(@, catchResponse(message))]
    /\ pc' = [pc EXCEPT ![r] = "done"]
    /\ awaited' = [awaited EXCEPT ![r] = "none"]
    /\ steps' = [steps EXCEPT ![r] = @ \o tags \o <<"respond">>]

\* multer calls next(err): Express skips the route handler (it takes two
\* arguments) and its built-in error handler answers
NextWithError(r, message, tags) ==
    /\ error' = [error EXCEPT ![r] = message]
    /\ responses' = [responses EXCEPT ![r] = Append(@, DefaultErrorPage)]
    /\ pc' = [pc EXCEPT ![r] = "done"]
    /\ steps' = [steps EXCEPT ![r] = @ \o tags \o <<"respond">>]

\* ------------------------------------------------------------- actions
\* a POST /upload arrives with some multipart body
Receive(r) ==
    /\ pc[r] = "idle"
    /\ \E b \in Bodies : body' = [body EXCEPT ![r] = b]
    /\ pc' = [pc EXCEPT ![r] = "parsing"]
    /\ steps' = [steps EXCEPT ![r] = Append(@, "receive")]
    /\ UNCHANGED <<reqFile, disk, awaited, error, uploadedFile, chatSession,
                   chatReply, responses, generationConfig>>

\* upload.single('image') meets the file part (or the end of a body without one)
MulterFile(r) ==
    /\ pc[r] = "parsing"
    /\ CASE body[r].field = "none" ->
              \* next() with req.file undefined: req.file.path throws
              /\ HandlerCatch(r, UndefinedFileMessage, <<"handler">>)
              /\ UNCHANGED <<disk>>
         [] body[r].field = "other" ->
              /\ NextWithError(r, UnexpectedFieldMessage, <<>>)
              /\ UNCHANGED <<disk, awaited>>
         [] body[r].field = "image" /\ ~fileFilter(body[r].mimetype) ->
              /\ NextWithError(r, OnlyImagesMessage, <<"validate">>)
              /\ UNCHANGED <<disk, awaited>>
         [] OTHER ->
              /\ disk' = disk \cup {TmpPath(r)}
              /\ pc' = [pc EXCEPT ![r] = "staging"]
              /\ steps' = [steps EXCEPT ![r] = @ \o <<"validate", "stage">>]
              /\ UNCHANGED <<awaited, error, responses>>
    /\ UNCHANGED <<body, reqFile, uploadedFile, chatSession, chatReply,
                   generationConfig>>

\* the file part ends or exceeds limits.fileSize; on success the route
\* handler runs up to its first await
MulterFinish(r) ==
    /\ pc[r] = "staging"
    /\ body' = [body EXCEPT ![r] = NoBody]
    /\ IF body[r].size > fileSizeLimit
       THEN /\ disk' = disk \ {TmpPath(r)}
            /\ NextWithError(r, FileTooLargeMessage, <<>>)
            /\ UNCHANGED <<reqFile, awaited>>
       ELSE /\ reqFile' = [reqFile EXCEPT ![r] =
                             [path |-> TmpPath(r), mimetype |-> body[r].mimetype]]
            /\ awaited' = [awaited EXCEPT ![r] = "pending"]
            /\ pc' = [pc EXCEPT ![r] = "awaitUpload"]
            /\ steps' = [steps EXCEPT ![r] = @ \o <<"handler", "upload">>]
            /\ UNCHANGED <<disk, error, responses>>
    /\ UNCHANGED <<uploadedFile, chatSession, chatReply, generationConfig>>

\* fileManager.uploadFile settles
UploadSettle(r) ==
    /\ pc[r] = "awaitUpload" /\ awaited[r] = "pending"
    /\ \/ /\ awaited' = [awaited EXCEPT ![r] = "fulfilled"]
          /\ uploadedFile' = [uploadedFile EXCEPT ![r] =
                                RemoteFile(r, reqFile[r].mimetype)]
          /\ UNCHANGED error
       \/ /\ awaited' = [awaited EXCEPT ![r] = "rejected"]
          /\ error' = [error EXCEPT ![r] = FetchFailedMessage]
          /\ UNCHANGED uploadedFile
    /\ steps' = [steps EXCEPT ![r] = Append(@, "uploadSettled")]
    /\ UNCHANGED <<pc, body, reqFile, disk, chatSession, chatReply, responses,
                   generationConfig>>

\* variant of UploadContinue: uploadToGemini logs the error without
\* rethrowing it, so the handler goes on to delete the temp file
UploadContinue_swallow(r) ==
    /\ pc[r] = "awaitUpload" /\ awaited[r] \in {"fulfilled", "rejected"}
    /\ awaited' = [awaited EXCEPT ![r] = "pending"]
    /\ pc' = [pc EXCEPT ![r] = "awaitUnlink"]
    /\ steps' = [steps EXCEPT ![r] = Append(@, "unlink")]
    /\ UNCHANGED <<error, responses>>
    /\ UNCHANGED <<body, reqFile, disk, uploadedFile, chatSession, chatReply,
                   generationConfig>>

\* the handler resumes after await uploadToGemini(...)
UploadContinue(r) ==
    /\ pc[r] = "awaitUpload" /\ awaited[r] \in {"fulfilled", "rejected"}
    /\ IF awaited[r] = "rejected"
       THEN HandlerCatch(r, error[r], <<>>)
       ELSE /\ awaited' = [awaited EXCEPT ![r] = "pending"]
            /\ pc' = [pc EXCEPT ![r] = "awaitUnlink"]
            /\ steps' = [steps EXCEPT ![r] = Append(@, "unlink")]
            /\ UNCHANGED <<error, responses>>
    /\ UNCHANGED <<body, reqFile, disk, uploadedFile, chatSession, chatReply,
                   generationConfig>>

\* variant of unlinkTarget: filePath is a module-level variable that a
\* concurrent request has overwritten with its own temp path
unlinkTarget_shared(r) ==
    IF \E q \in Reqs : q # r /\ TmpPath(q) \in disk
    THEN TmpPath(CHOOSE q \in Reqs : q # r /\ TmpPath(q) \in disk)
    ELSE reqFile[r].path

\* the file to remove when the handler calls fs.unlink(filePath)
unlinkTarget(r) == reqFile[r].path

\* variant of UnlinkSettle: the delete resolves but the file stays on disk
UnlinkSettle_keepsFile(r) ==
    /\ pc[r] = "awaitUnlink" /\ awaited[r] = "pending"
    /\ \/ /\ unlinkTarget(r) \in disk
          /\ disk' = disk
          /\ awaited' = [awaited EXCEPT ![r] = "fulfilled"]
          /\ UNCHANGED error
       \/ /\ awaited' = [awaited EXCEPT ![r] = "rejected"]
          /\ error' = [error EXCEPT ![r] = UnlinkFailedMessage]
          /\ UNCHANGED disk
    /\ steps' = [steps EXCEPT ![r] = Append(@, "unlinkSettled")]
    /\ UNCHANGED <<pc, body, reqFile, uploadedFile, chatSession, chatReply,
                   responses, generationConfig>>

\* fs.unlink settles
UnlinkSettle(r) ==
    /\ pc[r] = "awaitUnlink" /\ awaited[r] = "pending"
    /\ \/ /\ unlinkTarget(r) \in disk
          /\ disk' = disk \ {unlinkTarget(r)}
          /\ awaited' = [awaited EXCEPT ![r] = "fulfilled"]
          /\ UNCHANGED error
       \/ /\ awaited' = [awaited EXCEPT ![r] = "rejected"]
          /\ error' = [error EXCEPT ![r] = UnlinkFailedMessage]
          /\ UNCHANGED disk
    /\ steps' = [steps EXCEPT ![r] = Append(@, "unlinkSettled")]
    /\ UNCHANGED <<pc, body, reqFile, uploadedFile, chatSession, chatReply,
                   responses, generationConfig>>

\* the file reference placed in the chat history
historyFile(r) == uploadedFile[r]

\* variant of UnlinkContinue: a failed delete is caught and ignored, and the
\* handler goes on to the chat
UnlinkContinue_ignoreError(r) ==
    /\ pc[r] = "awaitUnlink" /\ awaited[r] \in {"fulfilled", "rejected"}
    /\ \/ /\ awaited[r] = "fulfilled"
          /\ HandlerCatch(r, StartChatMessage, <<>>)
          /\ UNCHANGED chatSession
       \/ /\ chatSession' = [chatSession EXCEPT ![r] =
                [generationConfig |-> generationConfig,
                 history |-> <<[role |-> "user",
                                mimeType |-> historyFile(r).mimeType,
                                fileUri |-> historyFile(r).uri]>>]]
          /\ awaited' = [awaited EXCEPT ![r] = "pending"]
          /\ pc' = [pc EXCEPT ![r] = "awaitChat"]
          /\ steps' = [steps EXCEPT ![r] = Append(@, "chat")]
          /\ UNCHANGED <<error, responses>>
    /\ UNCHANGED <<body, reqFile, disk, uploadedFile, chatReply, generationConfig>>

\* the handler resumes after await fs.unlink(...): startChat, sendMessage
UnlinkContinue(r) ==
    /\ pc[r] = "awaitUnlink" /\ awaited[r] \in {"fulfilled", "rejected"}
    /\ \/ /\ awaited[r] = "rejected"
          /\ HandlerCatch(r, error[r], <<>>)
          /\ UNCHANGED chatSession
       \/ /\ awaited[r] = "fulfilled"
          \* model.startChat throws
          /\ HandlerCatch(r, StartChatMessage, <<>>)
          /\ UNCHANGED chatSession
       \/ /\ awaited[r] = "fulfilled"
          /\ chatSession' = [chatSession EXCEPT ![r] =
                [generationConfig |-> generationConfig,
                 history |-> <<[role |-> "user",
                                mimeType |-> historyFile(r).mimeType,
                                fileUri |-> historyFile(r).uri]>>]]
          /\ awaited' = [awaited EXCEPT ![r] = "pending"]
          /\ pc' = [pc EXCEPT ![r] = "awaitChat"]
          /\ steps' = [steps EXCEPT ![r] = Append(@, "chat")]
          /\ UNCHANGED <<error, responses>>
    /\ UNCHANGED <<body, reqFile, disk, uploadedFile, chatReply, generationConfig>>

\* chatSession.sendMessage settles
ChatSettle(r) ==
    /\ pc[r] = "awaitChat" /\ awaited[r] = "pending"
    /\ \/ /\ awaited' = [awaited EXCEPT ![r] = "fulfilled"]
          /\ \E t \in Replies :
                chatReply' = [chatReply EXCEPT ![r] = [blocked |-> FALSE, text |-> t]]
          /\ UNCHANGED error
       \/ /\ awaited' = [awaited EXCEPT ![r] = "fulfilled"]
          /\ chatReply' = [chatReply EXCEPT ![r] = [blocked |-> TRUE, text |-> <<>>]]
          /\ UNCHANGED error
       \/ /\ awaited' = [awaited EXCEPT ![r] = "rejected"]
          /\ error' = [error EXCEPT ![r] = FetchFailedMessage]
          /\ UNCHANGED chatReply
    /\ steps' = [steps EXCEPT ![r] = Append(@, "chatSettled")]
    /\ UNCHANGED <<pc, body, reqFile, disk, uploadedFile, chatSession, responses,
                   generationConfig>>

\* variant of responseText: the reply is not lower-cased
responseText_noLower(reply) == reply

\* result.response.text().toLowerCase()
responseText(reply) == ToLowerCase(reply)

\* the if (responseText.includes('yes')) ... else ... of the handler
classifyResponse(reply) ==
    IF Includes(responseText(reply), YesNeedle) THEN CelebrationPage ELSE RedirectRoot

\* variant of ChatContinue: a failed chat is treated as an empty reply
ChatContinue_swallow(r) ==
    /\ pc[r] = "awaitChat" /\ awaited[r] \in {"fulfilled", "rejected"}
    /\ IF awaited[r] = "rejected" \/ chatReply[r].blocked
       THEN /\ responses' = [responses EXCEPT ![r] =
                               Append(@, classifyResponse(<<>>))]
            /\ error' = [error EXCEPT ![r] =
                           IF awaited[r] = "rejected" THEN @ ELSE TextBlockedMessage]
       ELSE /\ responses' = [responses EXCEPT ![r] =
                               Append(@, classifyResponse(chatReply[r].text))]
            /\ UNCHANGED error
    /\ pc' = [pc EXCEPT ![r] = "done"]
    /\ awaited' = [awaited EXCEPT ![r] = "none"]
    /\ steps' = [steps EXCEPT ![r] = Append(@, "respond")]
    /\ UNCHANGED <<body, reqFile, disk, uploadedFile, chatSession, chatReply,
                   generationConfig>>

\* the handler resumes after await chatSession.sendMessage(...)
ChatContinue(r) ==
    /\ pc[r] = "awaitChat" /\ awaited[r] \in {"fulfilled", "rejected"}
    /\ IF awaited[r] = "rejected"
       THEN HandlerCatch(r, error[r], <<>>)
       ELSE IF chatReply[r].blocked
       THEN HandlerCatch(r, TextBlockedMessage, <<>>)
       ELSE /\ responses' = [responses EXCEPT ![r] =
                               Append(@, classifyResponse(chatReply[r].text))]
            /\ pc' = [pc EXCEPT ![r] = "done"]
            /\ awaited' = [awaited EXCEPT ![r] = "none"]
            /\ steps' = [steps EXCEPT ![r] = Append(@, "respond")]
            /\ UNCHANGED error
    /\ UNCHANGED <<body, reqFile, disk, uploadedFile, chatSession, chatReply,
                   generationConfig>>

Next ==
    \E r \in Reqs :
        \/ Receive(r)
        \/ MulterFile(r)
        \/ MulterFinish(r)
        \/ UploadSettle(r)
        \/ UploadContinue(r)
        \/ UnlinkSettle(r)
        \/ UnlinkContinue(r)
        \/ ChatSettle(r)
        \/ ChatContinue(r)

Spec == Init /\ [][Next]_vars

\* The same server with LiveReq requests in flight, every started step of
\* multer and of the handler eventually runs, and every remote call and the
\* temp-file delete eventually settles.
NextLive ==
    \E r \in LiveReqs :
        \/ Receive(r)
        \/ MulterFile(r)
        \/ MulterFinish(r)
        \/ UploadSettle(r)
        \/ UploadContinue(r)
        \/ UnlinkSettle(r)
        \/ UnlinkContinue(r)
        \/ ChatSettle(r)
        \/ ChatContinue(r)

Fairness ==
    \A r \in LiveReqs :
        /\ WF_vars(MulterFile(r))
        /\ WF_vars(MulterFinish(r))
        /\ WF_vars(UploadSettle(r))
        /\ WF_vars(UploadContinue(r))
        /\ WF_vars(UnlinkSettle(r))
        /\ WF_vars(UnlinkContinue(r))
        /\ WF_vars(ChatSettle(r))
        /\ WF_vars(ChatContinue(r))

FairSpec == Init /\ [][NextLive]_vars /\ Fairness

\* ============================================================ properties
Has(r, tag) == \E i \in 1..Len(steps[r]) : steps[r][i] = tag

\* a reply contains y, e, s in a row, in either case
HasYesIgnoringCase(t) ==
    \E i \in 1..(Len(t) - 2) :
        /\ t[i] \in {"y", "Y"}
        /\ t[i + 1] \in {"e", "E"}
        /\ t[i + 2] \in {"s", "S"}

Rank(tag) ==
    CASE tag = "receive" -> 0
      [] tag = "validate" -> 1
      [] tag = "stage" -> 2
      [] tag = "handler" -> 3
      [] tag = "upload" -> 4
      [] tag = "uploadSettled" -> 5
      [] tag = "unlink" -> 6
      [] tag = "unlinkSettled" -> 7
      [] tag = "chat" -> 8
      [] tag = "chatSettled" -> 9
      [] tag = "respond" -> 10

\* the upload of request r threw
UploadThrew(r) == Has(r, "uploadSettled") /\ uploadedFile[r] = NoFile
\* the temp-file delete of request r threw
UnlinkThrew(r) == Has(r, "unlinkSettled") /\ error[r] = UnlinkFailedMessage
\* the chat step of request r (startChat, sendMessage or text()) threw
ChatThrew(r) ==
    /\ Has(r, "unlinkSettled")
    /\ error[r] # <<>>
    /\ error[r] # UnlinkFailedMessage
\* upload, delete and chat of request r all succeeded and r was answered
ChatSucceeded(r) == pc[r] = "done" /\ Has(r, "chatSettled") /\ error[r] = <<>>

\* C1: a request whose file has a MIME type not beginning with 'image/' is
\* answered 400 'Invalid file type. Please upload an image.', without the
\* file having been staged and without any remote call.
C1_NonImageAnswered400 ==
    \A r \in Reqs :
        (/\ pc[r] = "done"
         /\ body[r].field = "image"
         /\ ~StartsWith(body[r].mimetype, ImagePrefix))
        => /\ responses[r] = <<InvalidFileType>>
           /\ ~Has(r, "stage")
           /\ ~Has(r, "upload")
           /\ ~Has(r, "chat")

\* C2: when upload and chat both succeed the response is the celebratory
\* page if the reply contains 'yes' in any case, and the redirect to '/'
\* otherwise; nothing else is sent.
C2_ResponseFollowsYes ==
    \A r \in Reqs :
        ChatSucceeded(r)
        => responses[r] =
             <<IF HasYesIgnoringCase(chatReply[r].text)
               THEN CelebrationPage ELSE RedirectRoot>>

C2_Witness ==
    \E r, q \in Reqs :
        /\ ChatSucceeded(r)
        /\ chatReply[r].text = <<"y","e","s","s","?"," ","n","o">>
        /\ responses[r] = <<CelebrationPage>>
        /\ ChatSucceeded(q)
        /\ chatReply[q].text = <<"N","O"," ","Y","E">>
        /\ responses[q] = <<RedirectRoot>>

\* C3: the steps of one request happen in the order validate, stage, upload,
\* delete, chat, respond; the chat call is issued only after the upload
\* succeeded and the temp file was deleted, the temp file does not exist from
\* the chat call onward, and nothing is answered while the chat call is pending.
C3_StrictOrder ==
    \A r \in Reqs :
        /\ \A i \in 1..(Len(steps[r]) - 1) :
              Rank(steps[r][i]) < Rank(steps[r][i + 1])
        /\ Has(r, "chat")
           => /\ Has(r, "uploadSettled") /\ uploadedFile[r] # NoFile
              /\ Has(r, "unlinkSettled")
              /\ TmpPath(r) \notin disk
        /\ (Has(r, "chat") /\ Has(r, "respond")) => Has(r, "chatSettled")
        /\ pc[r] = "awaitChat" => responses[r] = <<>>

C3_Witness ==
    \E r \in Reqs :
        /\ pc[r] = "awaitChat" /\ awaited[r] = "pending"
        /\ Has(r, "stage")
        /\ TmpPath(r) \notin disk

\* C4: when the remote upload throws, the request is answered 500 'An error
\* occurred while processing your image.', no chat is started, no delete is
\* attempted and the temp file is still on disk.
C4_UploadFailure ==
    \A r \in Reqs :
        (pc[r] = "done" /\ UploadThrew(r))
        => /\ responses[r] = <<ProcessingError>>
           /\ ~Has(r, "chat") /\ chatSession[r] = NoSession
           /\ ~Has(r, "unlink")
           /\ TmpPath(r) \in disk

C4_Witness ==
    \E r \in Reqs :
        /\ pc[r] = "done" /\ UploadThrew(r)
        /\ error[r] = FetchFailedMessage
        /\ responses[r] = <<ProcessingError>>

\* C5: an image of at most 5,242,880 bytes passes the size check; a larger
\* one is rejected before the route body runs, and the rejection is answered
\* by the route handler's catch with 500 'An error occurred while processing
\* your image.'.
C5_SizeLimit ==
    [][\A r \in Reqs :
          (pc[r] = "staging" /\ pc'[r] # "staging")
          => IF body[r].size <= 5242880
             THEN pc'[r] = "awaitUpload"
             ELSE /\ responses'[r] = <<ProcessingError>>
                  /\ reqFile'[r] = NoReqFile
                  /\ uploadedFile'[r] = NoFile]_vars

\* C6: when the chat step throws after a successful upload, the request is
\* answered 500 'An error occurred while processing your image.', neither
\* the page nor the redirect is sent, and the temp file is already deleted.
C6_ChatFailure ==
    \A r \in Reqs :
        (pc[r] = "done" /\ ChatThrew(r))
        => /\ responses[r] = <<ProcessingError>>
           /\ TmpPath(r) \notin disk

C6_Witness ==
    \E r, q \in Reqs :
        /\ pc[r] = "done" /\ ChatThrew(r) /\ error[r] = TextBlockedMessage
        /\ pc[q] = "done" /\ ChatThrew(q) /\ error[q] = FetchFailedMessage
        /\ Has(q, "chatSettled")

\* C7: when deleting the temp file fails after a successful upload, the
\* request is answered 500 'An error occurred while processing your image.'
\* and no chat session is started.
C7_UnlinkFailure ==
    \A r \in Reqs :
        UnlinkThrew(r)
        => /\ chatSession[r] = NoSession /\ ~Has(r, "chat")
           /\ pc[r] \in {"awaitUnlink", "done"}
           /\ pc[r] = "done" => responses[r] = <<ProcessingError>>

C7_Witness ==
    \E r \in Reqs :
        /\ pc[r] = "done" /\ UnlinkThrew(r)
        /\ uploadedFile[r] # NoFile
        /\ responses[r] = <<ProcessingError>>

\* everything request r owns, and whether its temp file exists
Own(r) ==
    <<pc[r], body[r], reqFile[r], awaited[r], error[r], uploadedFile[r],
      chatSession[r], chatReply[r], responses[r], TmpPath(r) \in disk>>

\* the response the outcomes of request r itself call for
OwnResponse(r) ==
    IF ~Has(r, "handler") THEN DefaultErrorPage
    ELSE IF error[r] # <<>> THEN ProcessingError
    ELSE IF HasYesIgnoringCase(chatReply[r].text) THEN CelebrationPage
    ELSE RedirectRoot

\* C8: under any interleaving of concurrent requests, a step of one request
\* changes nothing another request owns (its temp file included), a chat
\* history references the handle of the request's own upload, a response
\* follows from the request's own outcomes, and generationConfig never changes.
C8_RequestIsolation ==
    [][/\ \A r \in Reqs :
            /\ steps'[r] = steps[r] => Own(r)' = Own(r)
            /\ chatSession'[r] # NoSession
               => /\ chatSession'[r].history[1].fileUri = <<"files", r>>
                  /\ chatSession'[r].history[1].fileUri = uploadedFile'[r].uri
                  /\ chatSession'[r].generationConfig = generationConfigInit
            /\ pc'[r] = "done" => responses'[r] = <<OwnResponse(r)'>>
       /\ generationConfig' = generationConfig]_vars

C8_Witness ==
    \E r, q \in Reqs :
        /\ r # q
        /\ pc[r] = "done" /\ UploadThrew(r) /\ TmpPath(r) \in disk
        /\ pc[q] = "done" /\ responses[q] = <<CelebrationPage>>
        /\ TmpPath(q) \notin disk
        /\ chatSession[q].history[1].fileUri = <<"files", q>>

AwaitStates == {"awaitUpload", "awaitUnlink", "awaitChat"}

\* C9: a request that entered the route handler is answered at most once,
\* an answered request stays answered with the same response, a request is
\* answered only once the call it awaits has settled (there is no timeout),
\* and when every call settles every such request is eventually answered.
C9_ExactlyOneResponse ==
    /\ [](\A r \in Reqs :
             /\ Len(responses[r]) <= 1
             /\ pc[r] = "done" <=> Len(responses[r]) = 1)
    /\ [][\A r \in Reqs :
             /\ pc[r] = "done" => (pc'[r] = "done" /\ responses'[r] = responses[r])
             /\ (pc[r] \in AwaitStates /\ awaited[r] = "pending")
                => (responses'[r] = <<>> /\ pc'[r] = pc[r])]_vars
    /\ \A r \in LiveReqs :
          Has(r, "handler") ~> (pc[r] = "done" /\ Len(responses[r]) = 1)

C9_Witness ==
    \E r \in LiveReqs :
        /\ Has(r, "handler") /\ Has(r, "chatSettled")
        /\ pc[r] = "done" /\ Len(responses[r]) = 1

\* C10: a request with no file under the field 'image' enters the route
\* handler, fails there before any upload, delete or chat, and is answered
\* 500 'An error occurred while processing your image.'.
C10_NoImageFile ==
    \A r \in Reqs :
        (pc[r] = "done" /\ body[r].field # "image")
        => /\ Has(r, "handler")
           /\ responses[r] = <<ProcessingError>>
           /\ ~Has(r, "upload") /\ ~Has(r, "unlink") /\ ~Has(r, "chat")

====
